---- MODULE Spec2Model ----
(***************************************************************************)
(* Simulation core of src/neon-defense-game.js (the NeonDefense React      *)
(* component): game state, buildings, letters, particles, the two timers   *)
(* kept in refs, and the handlers that change them.                        *)
(*                                                                         *)
(* React specifics that the model keeps:                                   *)
(*  - every handler and interval callback is a closure built by a render;  *)
(*    it READS the state of that render (rs) and WRITES through functional *)
(*    updaters, which apply to the current state.  A render is a step of   *)
(*    its own (Render), scheduled by React after the handler returns.      *)
(*  - handleKeyPress is registered twice: as onKeyPress of the game        *)
(*    element and as a keypress listener of window; an event that passes   *)
(*    through the element reaches both.                                    *)
(* Left out: the cosmetic fields no handler reads back (letter rotation    *)
(* and scale, particle position, velocity, size, colour, building height). *)
(***************************************************************************)
EXTENDS Integers, Sequences, FiniteSets, TLC

VARIABLES
    gameState,      \* useState record, line 127
    buildings,      \* useState array, line 141
    letters,        \* useState array, line 142
    particles,      \* useState array, line 143
    shake,          \* useState flag, line 144
    comboTimers,    \* pending setTimeout callbacks created at line 316
    comboTimeout,   \* useRef, line 147: id of the last combo timer, 0 for null
    shakeTimers,    \* pending setTimeout callbacks created at line 287
    shakeTimeout,   \* useRef, line 148
    rs,             \* the state as of the render whose closures are installed
    stale,          \* handler runs since that render
    dispatch,       \* key of a keypress that the element handled and window has yet to
    resets,         \* resetGame calls so far
    sinceMatch,     \* history: clock steps since the latest successful match
    scored,         \* history: ids of letters that were awarded points
    impacted,       \* history: ids of letters that were handed to handleLetterCollision
    op              \* history: what the last step did

vars == <<gameState, buildings, letters, particles, shake, comboTimers, comboTimeout,
          shakeTimers, shakeTimeout, rs, stale, dispatch, resets, sinceMatch, scored,
          impacted, op>>

----------------------------------------------------------------------------
(* Program constants *)

GAME_WIDTH == 800
BUILDING_COUNT == 8
TARGET_SCORE == 10000
MAX_PARTICLES == 50
BURST_SIZE == 20
COMBO_CAP == 10
COMBO_MS == 1000
SHAKE_MS == 200
CITY_HEALTH == 100
CITY_DAMAGE == 10
BUILDING_HEALTH == 3
BUILDING_MARGIN == 10

LETTER_TYPES ==
    [NORMAL |-> [points |-> 100], FAST |-> [points |-> 200],
     BONUS |-> [points |-> 300], POWER |-> [points |-> 150]]

----------------------------------------------------------------------------
(* Bounds of the model *)

\* live letters the spawner is allowed to pile up
MaxLetters == 2
\* the impact line GAME_HEIGHT - 20, scaled down; unit: a fifth of a pixel
ImpactY == 6
\* ticks a particle lives (1 / 0.02 in the source), scaled down
LifeSteps == 1
\* clock steps that make up COMBO_MS
WindowSteps == 2
\* handler runs React may leave between two renders
MaxStale == 2
\* letter ids in use at a time: the live letters and those a stale closure still holds
NumIds == MaxLetters + MaxStale
\* the score at which the player of the general game stops typing
MaxScore == 100
\* resetGame calls in one behaviour
MaxResets == 1
\* live letters during a typing streak
StreakLetters == 1
\* the score at which the player of a short streak stops typing
ComboScore == 300

----------------------------------------------------------------------------
(* Helpers *)

Min(a, b) == IF a < b THEN a ELSE b
Max(a, b) == IF a > b THEN a ELSE b

Range(s) == {s[i] : i \in 1..Len(s)}

Ids(ls) == {ls[i].id : i \in 1..Len(ls)}

\* Array.prototype.findIndex over the indices that satisfy the test: 1-based, 0 for -1
FirstIndex(S) == IF S = {} THEN 0 ELSE CHOOSE i \in S : \A j \in S : i <= j

\* prev.filter((_, i) => i !== index)
RemoveAt(s, i) ==
    [j \in 1..(Len(s) - (IF i \in 1..Len(s) THEN 1 ELSE 0)) |->
        IF j < i \/ i = 0 THEN s[j] ELSE s[j + 1]]

\* e.key.toUpperCase()
ToUpperCase(k) == CASE k = "a" -> "A" [] k = "b" -> "B" [] OTHER -> k

\* a duration in clock steps, rounded up: a timer never fires early
Steps(ms) == (ms * WindowSteps + COMBO_MS - 1) \div COMBO_MS

\* smallest timer id not pending
FreshTimer(ts) == CHOOSE n \in 1..(Cardinality(ts) + 1) :
    /\ \A t \in ts : t.id # n
    /\ \A m \in 1..(n - 1) : \E t \in ts : t.id = m

\* the timer is set and the pending one is left alone
SetOnly(ts, ref, ms) ==
    LET n == FreshTimer(ts)
    IN  [timers |-> ts \cup {[id |-> n, left |-> Steps(ms)]}, ref |-> n]

\* clearTimeout(ref.current); ref.current = setTimeout(..., ms)
ClearAndSet(ts, ref, ms) ==
    LET kept == {t \in ts : t.id # ref}
        n == FreshTimer(kept)
    IN  [timers |-> kept \cup {[id |-> n, left |-> Steps(ms)]}, ref |-> n]

Elapse(ts) == {[t EXCEPT !.left = Max(0, @ - 1)] : t \in ts}

----------------------------------------------------------------------------
(* State *)

InitialGameState ==
    [score |-> 0, level |-> 1, combo |-> 0, cityHealth |-> CITY_HEALTH, highScore |-> 0,
     \* lastComboTime: 0 is kept as its age Date.now() - lastComboTime in clock
     \* steps, saturated at WindowSteps
     sinceCombo |-> WindowSteps,
     lastPoints |-> 0, isActive |-> FALSE, gameOver |-> FALSE, victory |-> FALSE,
     powerUpActive |-> FALSE]

\* the widths Math.random() draws for a layout (30 + random * 40)
Widths == {40}

NewBuildings(ws) ==
    [i \in 1..BUILDING_COUNT |->
        [id |-> i - 1, width |-> ws[i],
         x |-> ((i - 1) * GAME_WIDTH) \div BUILDING_COUNT + BUILDING_MARGIN,
         destroyed |-> FALSE, health |-> BUILDING_HEALTH, shaking |-> FALSE]]

\* what the closures of a render can read
Snapshot(gs, bs, ls, ps) ==
    [gameState |-> gs, buildings |-> bs, letters |-> ls, hasParticles |-> ps # <<>>]

Idle == [kind |-> "idle", id |-> 0, type |-> "NORMAL", removed |-> 0, key |-> ""]

Init ==
    /\ gameState = InitialGameState
    /\ \E ws \in [1..BUILDING_COUNT -> Widths] : buildings = NewBuildings(ws)
    /\ letters = <<>>
    /\ particles = <<>>
    /\ shake = FALSE
    /\ comboTimers = {}
    /\ comboTimeout = 0
    /\ shakeTimers = {}
    /\ shakeTimeout = 0
    /\ rs = Snapshot(gameState, buildings, letters, particles)
    /\ stale = 0
    /\ dispatch = ""
    /\ resets = 0
    /\ sinceMatch = WindowSteps
    /\ scored = {}
    /\ impacted = {}
    /\ op = Idle

\* the mutable program state as one value, for the handlers below
World ==
    [gameState |-> gameState, buildings |-> buildings, letters |-> letters,
     particles |-> particles, shake |-> shake, comboTimers |-> comboTimers,
     comboTimeout |-> comboTimeout, shakeTimers |-> shakeTimers,
     shakeTimeout |-> shakeTimeout]

\* the queued updaters are applied; a render is due if they changed what closures read
Commit(w) ==
    /\ gameState' = w.gameState
    /\ buildings' = w.buildings
    /\ letters' = w.letters
    /\ particles' = w.particles
    /\ shake' = w.shake
    /\ comboTimers' = w.comboTimers
    /\ comboTimeout' = w.comboTimeout
    /\ shakeTimers' = w.shakeTimers
    /\ shakeTimeout' = w.shakeTimeout
    /\ stale' = IF Snapshot(w.gameState, w.buildings, w.letters, w.particles) = rs
                THEN 0 ELSE IF w = World THEN stale ELSE stale + 1
    /\ rs' = rs

\* the intervals are kept whatever the state
AlwaysRunning(c) == TRUE

\* the effects of lines 189 and 216 keep their intervals while this holds
Running(c) ==
    c.gameState.isActive /\ ~c.gameState.gameOver /\ ~c.gameState.victory

\* a new task may start: no keypress is half-way through its listeners
Ready == dispatch = "" /\ stale < MaxStale

----------------------------------------------------------------------------
(* createExplosion, lines 271-288 *)

\* smallest burst tag no live particle carries (stands for the Math.random() ids)
FreshBurst(ps) == CHOOSE n \in 1..(Len(ps) + 1) :
    /\ \A i \in 1..Len(ps) : ps[i].burst # n
    /\ \A m \in 1..(n - 1) : \E i \in 1..Len(ps) : ps[i].burst = m

\* Array(20).fill(null).map(...): k is the particle's place in its burst
NewParticles(b) == [k \in 1..BURST_SIZE |-> [burst |-> b, k |-> k, life |-> LifeSteps]]

\* no slice
Unsliced(ps) == ps

\* .slice(0, MAX_PARTICLES)
SliceMax(ps) == SubSeq(ps, 1, Min(Len(ps), MAX_PARTICLES))

createExplosion(w) ==
    LET t == ClearAndSet(w.shakeTimers, w.shakeTimeout, SHAKE_MS)
    IN  [w EXCEPT !.particles = SliceMax(@ \o NewParticles(FreshBurst(@))),
                  !.shake = TRUE,
                  !.shakeTimers = t.timers,
                  !.shakeTimeout = t.ref]

----------------------------------------------------------------------------
(* handleLetterCollision, lines 240-268; c is the render the callback closes over *)

hitBuildingIndex(bs, letter) ==
    FirstIndex({i \in 1..Len(bs) :
        /\ ~bs[i].destroyed
        /\ letter.x >= bs[i].x
        /\ letter.x <= bs[i].x + bs[i].width})

\* the damage is added
CityRepaired(h) == h + CITY_DAMAGE

\* Math.max(0, prev.cityHealth - 10)
DamageCity(h) == Max(0, h - CITY_DAMAGE)

handleLetterCollision(c, letter, w) ==
    LET i == hitBuildingIndex(c.buildings, letter)
    IN  IF i = 0 THEN w
        ELSE LET b == w.buildings[i]
                 newHealth == b.health - 1
                 w1 == IF newHealth <= 0
                       THEN [createExplosion(w) EXCEPT
                                !.gameState.cityHealth = DamageCity(@)]
                       ELSE w
             IN  [w1 EXCEPT !.buildings[i] =
                     [b EXCEPT !.health = newHealth,
                               !.destroyed = newHealth <= 0,
                               !.shaking = TRUE]]

----------------------------------------------------------------------------
(* gameLoop, lines 219-234 *)

\* INITIAL_LETTER_SPEED * 1.1^(level - 1) * (FAST ? 1.5 : 1) at level 1, the only
\* level the program ever has: 0.8 px and 1.2 px, in fifths of a pixel
LetterSpeed(type) == IF type = "FAST" THEN 6 ELSE 4

\* the letter goes up
Rise(speed, power) == 0 - speed

\* letter.speed * (powerUpActive ? 0.5 : 1)
Fall(speed, power) == IF power THEN speed \div 2 ELSE speed

Moved(ls, power) ==
    [i \in 1..Len(ls) |-> [ls[i] EXCEPT !.y = @ + Fall(ls[i].speed, power)]]

Landed(l) == l.y >= ImpactY

\* the filter callback, letter by letter in storage order
RECURSIVE Collisions(_, _, _, _)
Collisions(c, ls, i, w) ==
    IF i > Len(ls) THEN w
    ELSE Collisions(c, ls, i + 1,
            IF Landed(ls[i]) THEN handleLetterCollision(c, ls[i], w) ELSE w)

gameLoop(c, w) ==
    LET moved == Moved(w.letters, c.gameState.powerUpActive)
        w1 == Collisions(c, moved, 1, w)
    IN  [w1 EXCEPT !.letters = SelectSeq(moved, LAMBDA l : ~Landed(l))]

----------------------------------------------------------------------------
(* handleKeyPress, lines 291-320 *)

\* now - gameState.lastComboTime < 1000 ? gameState.combo + 1 : 1
NewCombo(gs) == IF gs.sinceCombo < WindowSteps THEN gs.combo + 1 ELSE 1

\* the flag follows the last matched letter
PowerUpLast(type, prev) == type = "POWER"

\* letter.type === LETTER_TYPES.POWER ? true : prev.powerUpActive
PowerUp(type, prev) == IF type = "POWER" THEN TRUE ELSE prev

\* the multiplier is not capped
PointsUncapped(type, newCombo) == LETTER_TYPES[type].points * newCombo

\* letter.type.points * Math.min(newCombo, 10)
Points(type, newCombo) == LETTER_TYPES[type].points * Min(newCombo, COMBO_CAP)

letterIndex(c, k) ==
    FirstIndex({i \in 1..Len(c.letters) : c.letters[i].char = ToUpperCase(k)})

Accepts(c, k) == Running(c) /\ letterIndex(c, k) # 0

handleKeyPress(c, k, w) ==
    IF ~Accepts(c, k) THEN w
    ELSE LET i == letterIndex(c, k)
             letter == c.letters[i]
             newCombo == NewCombo(c.gameState)
             points == Points(letter.type, newCombo)
             w1 == createExplosion(w)
             t == ClearAndSet(w.comboTimers, w.comboTimeout, COMBO_MS)
         IN  [w1 EXCEPT
                !.letters = RemoveAt(@, i),
                !.gameState = [@ EXCEPT
                    !.score = @ + points,
                    !.combo = newCombo,
                    !.sinceCombo = 0,
                    !.lastPoints = points,
                    !.powerUpActive = PowerUp(letter.type, @)],
                !.comboTimers = t.timers,
                !.comboTimeout = t.ref]

----------------------------------------------------------------------------
(* Steps *)

History(s, i, o) == scored' = s /\ impacted' = i /\ op' = o /\ resets' = resets

\* setInterval callback of the spawn effect, lines 195-210; the id stands for
\* Date.now(): an id is taken again only once no storage and no closure holds it
FreeIds == (1..NumIds) \ (Ids(letters) \cup Ids(rs.letters) \cup scored \cup impacted)

spawnTimer(chars, types, xs, max) ==
    /\ Ready
    /\ Running(rs)
    /\ Len(letters) < max
    /\ FreeIds # {}
    /\ \E ch \in chars, ty \in types, x \in xs :
          Commit([World EXCEPT !.letters = Append(@,
              [id |-> FirstIndex(FreeIds), char |-> ch, type |-> ty, x |-> x, y |-> 0,
               speed |-> LetterSpeed(ty)])])
    /\ History(scored, impacted, Idle)
    /\ UNCHANGED <<dispatch, sinceMatch>>

\* setInterval callback of the movement effect, lines 219-234
Tick ==
    /\ Ready
    /\ Running(rs)
    /\ letters # <<>>
    /\ Commit(gameLoop(rs, World))
    /\ LET landed == {l.id : l \in {m \in Range(Moved(letters, rs.gameState.powerUpActive)) :
                                        Landed(m)}}
       IN  History(scored, impacted \cup landed,
                   IF landed = {} THEN Idle ELSE [Idle EXCEPT !.kind = "impact"])
    /\ UNCHANGED <<dispatch, sinceMatch>>

\* setInterval callback of the particle effect, lines 167-183
particleLoop ==
    /\ Ready
    /\ rs.gameState.isActive
    /\ rs.hasParticles
    /\ Commit([World EXCEPT !.particles =
          SliceMax(SelectSeq([i \in 1..Len(@) |-> [@[i] EXCEPT !.life = @ - 1]],
                             LAMBDA q : q.life > 0))])
    /\ History(scored, impacted, Idle)
    /\ UNCHANGED <<dispatch, sinceMatch>>

\* one listener runs handleKeyPress for key k
Listener(k) ==
    /\ Commit(handleKeyPress(rs, k, World))
    /\ IF Accepts(rs, k)
       THEN LET i == letterIndex(rs, k)
                letter == rs.letters[i]
            IN  /\ History(scored \cup {letter.id}, impacted,
                           [kind |-> "match", id |-> letter.id, type |-> letter.type,
                            removed |-> IF i <= Len(letters) THEN letters[i].id ELSE 0,
                            key |-> ToUpperCase(k)])
                /\ sinceMatch' = 0
       ELSE History(scored, impacted, Idle) /\ UNCHANGED sinceMatch

\* a keypress with the focus in the game element: onKeyPress, line 385, runs first
\* and the event then bubbles on to window
KeyPressElement(keys, cap) ==
    /\ Ready
    /\ gameState.score < cap
    /\ \E k \in keys : Listener(k) /\ dispatch' = k

\* the window listener, lines 323-326, for a keypress with the focus elsewhere
KeyPressWindow(keys, cap) ==
    /\ Ready
    /\ gameState.score < cap
    /\ \E k \in keys : Listener(k)
    /\ dispatch' = ""

\* the window listener for the keypress the element has just handled
KeyPressBubble ==
    /\ dispatch # ""
    /\ Listener(dispatch)
    /\ dispatch' = ""

\* the combo is left as it is
KeepCombo(gs) == gs

\* prev => ({ ...prev, combo: 0 }), line 317
ExpireCombo(gs) == [gs EXCEPT !.combo = 0]

\* the setTimeout callback of lines 316-318
comboExpiry ==
    /\ Ready
    /\ \E t \in comboTimers :
          /\ t.left = 0
          /\ Commit([World EXCEPT !.gameState = ExpireCombo(@), !.comboTimers = @ \ {t}])
    /\ History(scored, impacted, [Idle EXCEPT !.kind = "expiry"])
    /\ UNCHANGED <<dispatch, sinceMatch>>

\* the setTimeout callback of line 287
shakeExpiry ==
    /\ Ready
    /\ \E t \in shakeTimers :
          /\ t.left = 0
          /\ Commit([World EXCEPT !.shake = FALSE, !.shakeTimers = @ \ {t}])
    /\ History(scored, impacted, Idle)
    /\ UNCHANGED <<dispatch, sinceMatch>>

\* startGame, lines 356-361 (onClick of the game element)
startGame ==
    /\ Ready
    /\ ~rs.gameState.isActive
    /\ Commit([World EXCEPT !.gameState.isActive = TRUE])
    /\ History(scored, impacted, Idle)
    /\ UNCHANGED <<dispatch, sinceMatch>>

\* the high score is left as it is
HighScoreKept(gs) == gs.highScore

\* Math.max(prev.score, prev.highScore), line 335
HighScore(gs) == Max(gs.score, gs.highScore)

\* resetGame, lines 329-353.  The function has no guard of its own.
resetGame ==
    /\ Ready
    /\ resets < MaxResets
    /\ \E ws \in [1..BUILDING_COUNT -> Widths] :
          Commit([World EXCEPT
              !.gameState = [InitialGameState EXCEPT
                  !.highScore = HighScore(gameState)],
              !.letters = <<>>,
              !.particles = <<>>,
              !.buildings = NewBuildings(ws)])
    /\ scored' = scored /\ impacted' = impacted /\ op' = [Idle EXCEPT !.kind = "reset"]
    /\ resets' = resets + 1
    /\ UNCHANGED <<dispatch, sinceMatch>>

\* React renders and runs the effects: the closures of every handler, listener and
\* interval are rebuilt over the current state
Render ==
    /\ Snapshot(gameState, buildings, letters, particles) # rs
    /\ rs' = Snapshot(gameState, buildings, letters, particles)
    /\ stale' = 0
    /\ History(scored \cap Ids(letters), impacted \cap Ids(letters), Idle)
    /\ UNCHANGED <<gameState, buildings, letters, particles, shake, comboTimers,
                   comboTimeout, shakeTimers, shakeTimeout, dispatch, sinceMatch>>

\* the clock moves on by one step (COMBO_MS / WindowSteps)
Age(n) == Min(WindowSteps, n + 1)

Advance ==
    /\ dispatch = ""
    /\ gameState' = [gameState EXCEPT !.sinceCombo = Age(@)]
    /\ rs' = [rs EXCEPT !.gameState.sinceCombo = Age(@)]
    /\ comboTimers' = Elapse(comboTimers)
    /\ shakeTimers' = Elapse(shakeTimers)
    /\ sinceMatch' = Age(sinceMatch)
    /\ History(scored, impacted, Idle)
    /\ UNCHANGED <<buildings, letters, particles, shake, comboTimeout, shakeTimeout,
                   stale, dispatch>>

----------------------------------------------------------------------------
(* The game as played: every handler, the smallest inputs *)

Chars == {"A"}
Keys == {"A", "b"}
Types == {"NORMAL"}
\* x = 30 lies in the span [10, 50] of the first building
Xs == {30}

Next ==
    \/ spawnTimer(Chars, Types, Xs, MaxLetters)
    \/ Tick
    \/ particleLoop
    \/ KeyPressElement(Keys, MaxScore)
    \/ KeyPressWindow(Keys, MaxScore)
    \/ KeyPressBubble
    \/ comboExpiry
    \/ shakeExpiry
    \/ startGame
    \/ resetGame
    \/ Render
    \/ Advance

Spec == Init /\ [][Next]_vars

----------------------------------------------------------------------------
(* The game as the interface lets it be played.  The Play Again button, the    *)
(* only caller of resetGame, is rendered when gameOver or victory holds (lines *)
(* 452-479), and no code sets either.                                          *)

NextPlay ==
    \/ spawnTimer(Chars, Types, Xs, MaxLetters)
    \/ Tick
    \/ particleLoop
    \/ KeyPressElement(Keys, MaxScore)
    \/ KeyPressWindow(Keys, MaxScore)
    \/ KeyPressBubble
    \/ comboExpiry
    \/ shakeExpiry
    \/ startGame
    \/ Render
    \/ Advance

SpecPlay == Init /\ [][NextPlay]_vars

----------------------------------------------------------------------------
(* A typing streak up to the target score: the handlers that read or write   *)
(* score and combo.  Letters fall in the gap after the first building and    *)
(* the player types until the target is reached.                             *)

StreakTypes == {"NORMAL", "BONUS"}
GapXs == {70}

NextStreak ==
    \/ spawnTimer(Chars, StreakTypes, GapXs, StreakLetters)
    \/ KeyPressElement(Chars, TARGET_SCORE)
    \/ KeyPressWindow(Chars, TARGET_SCORE)
    \/ KeyPressBubble
    \/ comboExpiry
    \/ startGame
    \/ Render
    \/ Advance

SpecStreak == Init /\ [][NextStreak]_vars

----------------------------------------------------------------------------
(* A siege: nobody types, and every letter falls on the first building that  *)
(* still stands.                                                             *)

FrontXs ==
    LET i == FirstIndex({j \in 1..Len(buildings) : ~buildings[j].destroyed})
    IN  IF i = 0 THEN {} ELSE {buildings[i].x + 20}

NextSiege ==
    \/ spawnTimer(Chars, Types, FrontXs, MaxLetters)
    \/ Tick
    \/ startGame
    \/ Render

SpecSiege == Init /\ [][NextSiege]_vars

----------------------------------------------------------------------------
(* A game with power-ups: NORMAL and POWER letters fall in the gap after the   *)
(* first building, are typed or land, and the game may be reset.               *)

PowerTypes == {"NORMAL", "POWER"}

NextPower ==
    \/ spawnTimer(Chars, PowerTypes, GapXs, MaxLetters)
    \/ Tick
    \/ KeyPressElement(Chars, MaxScore)
    \/ KeyPressWindow(Chars, MaxScore)
    \/ KeyPressBubble
    \/ comboExpiry
    \/ startGame
    \/ resetGame
    \/ Render
    \/ Advance

SpecPower == Init /\ [][NextPower]_vars

----------------------------------------------------------------------------
(* A short streak and the wait after it.  The browser runs a timer callback   *)
(* that is due once the running task has returned, React renders after every  *)
(* state change, a keypress the element handled goes on to window, and time   *)
(* passes.                                                                    *)

NextCombo ==
    \/ spawnTimer(Chars, Types, GapXs, StreakLetters)
    \/ KeyPressElement(Chars, ComboScore)
    \/ KeyPressWindow(Chars, ComboScore)
    \/ KeyPressBubble
    \/ comboExpiry
    \/ startGame
    \/ Render
    \/ Advance

SpecCombo ==
    /\ Init
    /\ [][NextCombo]_vars
    /\ SF_vars(comboExpiry)
    /\ WF_vars(Render)
    /\ WF_vars(KeyPressBubble)
    /\ WF_vars(Advance)

----------------------------------------------------------------------------
(* Letters falling on the first building, with the scheduling the browser and *)
(* React give: an interval callback that is due runs, so does a timeout       *)
(* callback, a state change is rendered, and time passes.                     *)

NextShake ==
    \/ spawnTimer(Chars, Types, Xs, MaxLetters)
    \/ Tick
    \/ shakeExpiry
    \/ startGame
    \/ Render
    \/ Advance

SpecShake ==
    /\ Init
    /\ [][NextShake]_vars
    /\ SF_vars(spawnTimer(Chars, Types, Xs, MaxLetters))
    /\ SF_vars(Tick)
    /\ SF_vars(shakeExpiry)
    /\ WF_vars(Render)
    /\ WF_vars(Advance)

----------------------------------------------------------------------------
(* Properties *)

\* C1: once a match has brought the score to TARGET_SCORE or more, the game is in
\* Victory (and spawning, which runs while victory is false, has stopped)
VictoryAtTarget == gameState.score >= TARGET_SCORE => gameState.victory

\* C2: cityHealth = 0 implies gameOver, in every reachable state
GameOverAtZero == gameState.cityHealth = 0 => gameState.gameOver

\* C3: no letter is both handed to the collision resolver and awarded points
OnePathPerLetter == scored \cap impacted = {}

\* C4: every building's health is in 0..3
HealthInRange ==
    \A i \in 1..Len(buildings) : buildings[i].health \in 0..BUILDING_HEALTH

\* C5: no step other than a reset raises cityHealth
CityHealthNonIncreasing ==
    [][op'.kind = "reset" \/ gameState'.cityHealth <= gameState.cityHealth]_vars

\* a building was destroyed and a letter was matched in the same run
CityDamagedAndScored == gameState.cityHealth < CITY_HEALTH /\ gameState.score > 0

\* C6: a match adds the matched type's points times min(combo, 10) to the score,
\* combo being the value the match stores, which is at least 1
MatchPoints ==
    [][op'.kind = "match" =>
        /\ gameState'.combo >= 1
        /\ gameState'.score = gameState.score +
              LETTER_TYPES[op'.type].points * Min(gameState'.combo, COMBO_CAP)]_vars

\* a BONUS letter matched with the multiplier at its cap
CappedMatch == op.kind = "match" /\ op.type = "BONUS" /\ gameState.combo > COMBO_CAP

\* C7: a match less than COMBO_MS after the previous one stores the previous combo
\* plus 1, any other match stores 1
ComboStep ==
    [][op'.kind = "match" =>
        gameState'.combo = IF sinceMatch < WindowSteps THEN gameState.combo + 1 ELSE 1]_vars

\* C8: once COMBO_MS have passed since the latest match with its timer pending,
\* the combo is eventually 0, unless a further match comes first
ComboEventuallyExpires ==
    (sinceMatch >= WindowSteps /\ comboTimers # {})
        ~> (gameState.combo = 0 \/ sinceMatch < WindowSteps)

\* the timer has just put a combo of 2 or more, as last rendered, back to 0
StreakExpired == op.kind = "expiry" /\ rs.gameState.combo >= 2 /\ gameState.combo = 0

\* C9: at most one combo timer is pending, it is the one the ref names, and the
\* expiry runs only COMBO_MS or more after the latest match
OneComboTimer ==
    /\ Cardinality(comboTimers) <= 1
    /\ \A t \in comboTimers :
          t.id = comboTimeout /\ (t.left = 0 => sinceMatch >= WindowSteps)
    /\ op.kind = "expiry" => sinceMatch >= WindowSteps

\* the timer of the second match of a run has fired
ExpiredAfterReplacement ==
    op.kind = "expiry" /\ gameState.score >= 2 * LETTER_TYPES.NORMAL.points

LiveMatch(k) ==
    Running([gameState |-> gameState]) /\ \E i \in 1..Len(letters) : letters[i].char = k

\* C12: a keypress while the game is not running, or whose character no stored
\* letter has, changes nothing: the handler scores (and changes letters, particles
\* and the combo timer) only for a key the current state accepts
NoOpKeypress == [][op'.kind = "match" => LiveMatch(op'.key)]_vars

YNonDecreasing ==
    [][\A i \in 1..Len(letters), j \in 1..Len(letters') :
          letters[i].id = letters'[j].id => letters'[j].y >= letters[i].y]_vars

\* a stored letter has fallen at half speed
SlowedFall == \E i \in 1..Len(letters) : letters[i].y % letters[i].speed # 0

\* C20: powerUpActive becomes true in a match of a POWER letter and in no other
\* step, and once true it stays true in every step but a reset, which makes it false
PowerUpSticky ==
    [][/\ (gameState'.powerUpActive /\ ~gameState.powerUpActive
              => op'.kind = "match" /\ op'.type = "POWER")
       /\ (op'.kind = "match" /\ op'.type = "POWER" => gameState'.powerUpActive)
       /\ (gameState.powerUpActive /\ op'.kind # "reset" => gameState'.powerUpActive)
       /\ (op'.kind = "reset" => ~gameState'.powerUpActive)]_vars

\* the combo timer has fired with the power-up still active
PowerUpOutlastsTimer == op.kind = "expiry" /\ gameState.powerUpActive

\* C15: cityHealth is 100 less 10 for every destroyed building
CityHealthCountsDestroyed ==
    gameState.cityHealth = CITY_HEALTH - CITY_DAMAGE *
        Cardinality({i \in 1..Len(buildings) : buildings[i].destroyed})

\* the id of the first stored letter whose char is k, 0 if there is none
FirstStored(k) ==
    LET i == FirstIndex({j \in 1..Len(letters) : letters[j].char = k})
    IN  IF i = 0 THEN 0 ELSE letters[i].id

\* C16: a match removes one letter, the first in current storage whose char is the
\* key pressed, and leaves every other letter stored
RemovesFirstMatch ==
    [][op'.kind = "match" =>
        /\ FirstStored(op'.key) # 0
        /\ Ids(letters') = Ids(letters) \ {FirstStored(op'.key)}
        /\ Len(letters') = Len(letters) - 1]_vars

\* C17: the letters that land in a step each damage the lowest-index standing
\* building whose span holds their x, and nothing else: a building loses one health
\* per such letter while it stands, and with no such building for any of them the
\* buildings, cityHealth and the particles stay as they are
ImpactDamage ==
    [][op'.kind = "impact" =>
        LET landed == {l \in Range(Moved(letters, rs.gameState.powerUpActive)) : Landed(l)}
            hits(i) == Cardinality({l \in landed : hitBuildingIndex(buildings, l) = i})
        IN  /\ \A i \in 1..Len(buildings) :
                  buildings[i].health - buildings'[i].health =
                      Min(hits(i), Max(buildings[i].health, 0))
            /\ (\A i \in 1..Len(buildings) : hits(i) = 0) =>
                  /\ buildings' = buildings
                  /\ gameState'.cityHealth = gameState.cityHealth
                  /\ particles' = particles]_vars

\* C18: the particle stored last is the last particle of its burst: when the cap
\* cuts, it cuts the oldest and keeps the newest burst whole
NewestBurstKept ==
    particles # <<>> => particles[Len(particles)].k = BURST_SIZE

\* C19: a building whose shaking flag is set has it cleared again later
ShakingClears ==
    \A i \in 1..BUILDING_COUNT : buildings[i].shaking ~> ~buildings[i].shaking

\* C10: never more than MAX_PARTICLES live particles
ParticleCap == Len(particles) <= MAX_PARTICLES

\* the cap is reached
ParticlesAtCap == Len(particles) = MAX_PARTICLES
====
